---- MODULE Spec2Model ----
(***************************************************************************)
(* Model of aruco.py: the workbench catalog (DroneWorkbenchSystem), the    *)
(* recipe lookup get_idx_inside_workbench and the coordinate transform     *)
(* get_coords_to_fly.                                                      *)
(*                                                                         *)
(* Python floats are IEEE-754 binary64.  A float is modelled exactly as a  *)
(* sign and a magnitude, the magnitude being an integer number of units of *)
(* 2^-80 held in NL limbs of LimbBits bits (least significant limb first;  *)
(* the last limb is the integer part and is not reduced modulo B).  Every  *)
(* binary64 value of magnitude between 2^-27 and 2^20 is such a number.    *)
(***************************************************************************)
EXTENDS Integers, Sequences, FiniteSets

----------------------------------------------------------------------------
(* Multi-limb magnitudes *)

LimbBits == 20
B == 1048576
NL == 5
MantBits == 53

RECURSIVE Pow2(_)
Pow2(k) == IF k = 0 THEN 1 ELSE 2 * Pow2(k - 1)

RECURSIVE BitLen(_)
BitLen(n) == IF n = 0 THEN 0 ELSE 1 + BitLen(n \div 2)

MagZero == <<0, 0, 0, 0, 0>>

MagAdd(a, b) ==
  LET s1 == a[1] + b[1]
      s2 == a[2] + b[2] + (s1 \div B)
      s3 == a[3] + b[3] + (s2 \div B)
      s4 == a[4] + b[4] + (s3 \div B)
      s5 == a[5] + b[5] + (s4 \div B)
  IN  <<s1 % B, s2 % B, s3 % B, s4 % B, s5>>

\* a - b for a >= b; \div rounds down, so a negative limb borrows -1
MagSub(a, b) ==
  LET s1 == a[1] - b[1]
      s2 == a[2] - b[2] + (s1 \div B)
      s3 == a[3] - b[3] + (s2 \div B)
      s4 == a[4] - b[4] + (s3 \div B)
      s5 == a[5] - b[5] + (s4 \div B)
  IN  <<s1 % B, s2 % B, s3 % B, s4 % B, s5>>

MagLess(a, b) ==
  IF a[5] # b[5] THEN a[5] < b[5]
  ELSE IF a[4] # b[4] THEN a[4] < b[4]
  ELSE IF a[3] # b[3] THEN a[3] < b[3]
  ELSE IF a[2] # b[2] THEN a[2] < b[2]
  ELSE a[1] < b[1]

\* a * k for a small natural k
MagMulSmall(a, k) ==
  LET s1 == a[1] * k
      s2 == a[2] * k + (s1 \div B)
      s3 == a[3] * k + (s2 \div B)
      s4 == a[4] * k + (s3 \div B)
      s5 == a[5] * k + (s4 \div B)
  IN  <<s1 % B, s2 % B, s3 % B, s4 % B, s5>>

\* floor(a / d) and whether the division left a remainder, for a small d
MagDivSmall(a, d) ==
  LET r5 == a[5] % d
      n4 == r5 * B + a[4]
      n3 == (n4 % d) * B + a[3]
      n2 == (n3 % d) * B + a[2]
      n1 == (n2 % d) * B + a[1]
  IN  [q |-> <<n1 \div d, n2 \div d, n3 \div d, n4 \div d, a[5] \div d>>,
       inexact |-> (n1 % d) # 0]

MagBitLen(a) ==
  IF a[5] > 0 THEN 4 * LimbBits + BitLen(a[5])
  ELSE IF a[4] > 0 THEN 3 * LimbBits + BitLen(a[4])
  ELSE IF a[3] > 0 THEN 2 * LimbBits + BitLen(a[3])
  ELSE IF a[2] > 0 THEN LimbBits + BitLen(a[2])
  ELSE BitLen(a[1])

\* the limb that holds bit k, and the weight of bit k in it
LimbOf(k) == IF k \div LimbBits + 1 > NL THEN NL ELSE k \div LimbBits + 1

WeightIn(k) == Pow2(k - LimbBits * (LimbOf(k) - 1))

\* the magnitude 2^k
MagPow2(k) ==
  LET top == LimbOf(k)
      w == WeightIn(k)
  IN  <<IF top = 1 THEN w ELSE 0, IF top = 2 THEN w ELSE 0, IF top = 3 THEN w ELSE 0,
        IF top = 4 THEN w ELSE 0, IF top = 5 THEN w ELSE 0>>

\* the low k bits of a
MagLow(a, k) ==
  LET top == LimbOf(k)
      w == WeightIn(k)
  IN  <<IF top = 1 THEN a[1] % w ELSE a[1],
        IF top = 2 THEN a[2] % w ELSE IF top > 2 THEN a[2] ELSE 0,
        IF top = 3 THEN a[3] % w ELSE IF top > 3 THEN a[3] ELSE 0,
        IF top = 4 THEN a[4] % w ELSE IF top > 4 THEN a[4] ELSE 0,
        IF top = 5 THEN a[5] % w ELSE 0>>

\* IEEE round-to-nearest, ties-to-even, of the exact magnitude a (+ a
\* nonzero amount below the last unit when sticky) to MantBits significant bits
RoundMag(a, sticky) ==
  LET drop == MagBitLen(a) - MantBits
  IN  IF drop <= 0 THEN a
      ELSE LET low == MagLow(a, drop)
               half == MagPow2(drop - 1)
               trunc == MagSub(a, low)
               odd == ~MagLess(MagLow(a, drop + 1), MagPow2(drop))
               up == MagLess(half, low) \/ (low = half /\ (sticky \/ odd))
           IN  IF up THEN MagAdd(trunc, MagPow2(drop)) ELSE trunc

----------------------------------------------------------------------------
(* binary64 values and the float operations the program uses *)

\* -0.0 == 0.0 in Python; zero is kept with neg = FALSE
Float(neg, mag) == [neg |-> neg /\ mag # MagZero, mag |-> mag]

\* the float a decimal literal denotes (and float(str)): n / 10^digits
\* correctly rounded
RECURSIVE Pow10(_)
Pow10(k) == IF k = 0 THEN 1 ELSE 10 * Pow10(k - 1)

\* qs.q / 10^digits, three digits at a time (MagDivSmall takes d <= 1000)
RECURSIVE MagDivPow10(_, _)
MagDivPow10(qs, digits) ==
  IF digits = 0 THEN qs
  ELSE LET step == IF digits > 3 THEN 3 ELSE digits
           d == MagDivSmall(qs.q, Pow10(step))
       IN  MagDivPow10([q |-> d.q, inexact |-> qs.inexact \/ d.inexact], digits - step)

DecimalToFloat(n, digits) ==
  LET abs == IF n < 0 THEN 0 - n ELSE n
      d == MagDivPow10([q |-> <<0, 0, 0, 0, abs>>, inexact |-> FALSE], digits)
  IN  Float(n < 0, RoundMag(d.q, d.inexact))

FNeg(x) == Float(~x.neg, x.mag)

\* float + float
FAdd(x, y) ==
  IF x.neg = y.neg THEN Float(x.neg, RoundMag(MagAdd(x.mag, y.mag), FALSE))
  ELSE IF MagLess(x.mag, y.mag) THEN Float(y.neg, RoundMag(MagSub(y.mag, x.mag), FALSE))
  ELSE Float(x.neg, RoundMag(MagSub(x.mag, y.mag), FALSE))

\* float - float
FSub(x, y) == FAdd(x, FNeg(y))

\* int * float, for a small int k
IntMulFloat(k, x) ==
  LET abs == IF k < 0 THEN 0 - k ELSE k
  IN  Float(x.neg # (k < 0), RoundMag(MagMulSmall(x.mag, abs), FALSE))

\* x * 10^ndigits rounded half-even to an integer, on the exact value of x:
\* the decimal digits float.__round__ obtains (ndigits <= 3)
DecimalDigits(x, ndigits) ==
  LET p == MagMulSmall(x.mag, Pow10(ndigits))
      frac == <<p[1], p[2], p[3], p[4], 0>>
      half == MagPow2(4 * LimbBits - 1)
      up == MagLess(half, frac) \/ (frac = half /\ p[5] % 2 = 1)
      k == IF up THEN p[5] + 1 ELSE p[5]
  IN  IF x.neg THEN 0 - k ELSE k

\* round(x, ndigits): the correctly rounded decimal, converted back to float
round(x, ndigits) == DecimalToFloat(DecimalDigits(x, ndigits), ndigits)

----------------------------------------------------------------------------
(* dicts: a dict is the sequence of its <<key, value>> items in insertion   *)
(* order, keys distinct                                                     *)

Keys(d) == {d[i][1] : i \in DOMAIN d}

Value(d, k) == d[CHOOSE i \in DOMAIN d : d[i][1] = k][2]

\* d[k] = v
SetItem(d, k, v) ==
  IF k \in Keys(d) THEN [i \in DOMAIN d |-> IF d[i][1] = k THEN <<k, v>> ELSE d[i]]
  ELSE Append(d, <<k, v>>)

----------------------------------------------------------------------------
(* DroneWorkbenchSystem *)

workbench_layout ==
  <<<<0, <<0, 0>>>>, <<1, <<0, 1>>>>, <<2, <<0, 2>>>>,
    <<3, <<1, 0>>>>, <<4, <<1, 1>>>>, <<5, <<1, 2>>>>,
    <<6, <<2, 0>>>>, <<7, <<2, 1>>>>, <<8, <<2, 2>>>>>>

craft_recipes_Shared ==
  <<<<0, [name |-> "Kirka",
          assignments |-> <<<<"drone5", 1>>, <<"drone6", 4>>, <<"drone11", 7>>>>]>>,
    <<1, [name |-> "Topor",
          assignments |-> <<<<"drone5", 0>>, <<"drone6", 1>>, <<"drone11", 3>>, <<"drone13", 4>>>>]>>,
    <<2, [name |-> "Mech",
          assignments |-> <<<<"drone5", 4>>, <<"drone6", 5>>, <<"drone11", 3>>, <<"drone13", 3>>>>]>>,
    <<3, [name |-> "Motyga",
          assignments |-> <<<<"drone5", 0>>, <<"drone6", 1>>, <<"drone11", 4>>, <<"drone13", 7>>>>]>>>>

craft_recipes ==
  <<<<0, [name |-> "Kirka",
          assignments |-> <<<<"drone5", 1>>, <<"drone6", 4>>, <<"drone11", 7>>>>]>>,
    <<1, [name |-> "Topor",
          assignments |-> <<<<"drone5", 0>>, <<"drone6", 1>>, <<"drone11", 3>>, <<"drone13", 4>>>>]>>,
    <<2, [name |-> "Mech",
          assignments |-> <<<<"drone5", 4>>, <<"drone6", 5>>, <<"drone11", 3>>, <<"drone13", 6>>>>]>>,
    <<3, [name |-> "Motyga",
          assignments |-> <<<<"drone5", 0>>, <<"drone6", 1>>, <<"drone11", 4>>, <<"drone13", 7>>>>]>>>>

cell_size == DecimalToFloat(15, 2)

hover_height == DecimalToFloat(3, 1)

DroneWorkbenchSystem ==
  [workbench_layout |-> workbench_layout,
   craft_recipes |-> craft_recipes,
   cell_size |-> cell_size,
   hover_height |-> hover_height]

----------------------------------------------------------------------------
(* The two operations.  Each yields what the call returns (ret), the lines  *)
(* it prints (out) and the exception it raises, if any (raised).            *)

Return(value, printed) == [raised |-> "none", ret |-> value, out |-> printed]

Raise(exception, printed) == [raised |-> exception, ret |-> <<>>, out |-> printed]

\* d[k], which raises KeyError when k is not a key of d
GetItem(d, k) ==
  IF k \in Keys(d) THEN [raised |-> "none", value |-> Value(d, k)]
  ELSE [raised |-> "KeyError"]

get_idx_inside_workbench_ChecksMarker(sys, craft_id, aruco_idx) ==
  IF craft_id \in Keys(sys.craft_recipes) /\ aruco_idx \in Keys(sys.workbench_layout)
  THEN Return(Value(sys.craft_recipes, craft_id).assignments, <<<<"INFO", craft_id>>>>)
  ELSE Return(<<>>, <<<<"ERROR", craft_id>>>>)

get_idx_inside_workbench_Unchecked(sys, craft_id, aruco_idx) ==
  LET recipe == GetItem(sys.craft_recipes, craft_id)
  IN  IF recipe.raised # "none" THEN Raise(recipe.raised, <<>>)
      ELSE Return(recipe.value.assignments, <<<<"INFO", craft_id>>>>)

get_idx_inside_workbench(sys, craft_id, aruco_idx) ==
  IF craft_id \in Keys(sys.craft_recipes)
  THEN LET recipe == GetItem(sys.craft_recipes, craft_id)
       IN  IF recipe.raised # "none" THEN Raise(recipe.raised, <<>>)
           ELSE Return(recipe.value.assignments, <<<<"INFO", craft_id>>>>)
  ELSE Return(<<>>, <<<<"ERROR", craft_id>>>>)

\* `target_pos_idx not in system.workbench_layout`
InvalidPosition_FalsyZero(sys, target_pos_idx) ==
  target_pos_idx = 0 \/ target_pos_idx \notin Keys(sys.workbench_layout)

InvalidPosition(sys, target_pos_idx) ==
  target_pos_idx \notin Keys(sys.workbench_layout)

\* grid steps from the marker's cell (row, column) to the target's
col_diff_FromRow(target, base) == target[2] - base[1]

col_diff(target, base) == target[2] - base[2]

row_diff(target, base) == target[1] - base[1]

\* metric coordinates of the target
target_x_NoStep(sys, base_x, coldiff) == base_x

target_x(sys, base_x, coldiff) == FAdd(base_x, IntMulFloat(coldiff, sys.cell_size))

target_y_Up(sys, base_y, rowdiff) == FAdd(base_y, IntMulFloat(rowdiff, sys.cell_size))

target_y(sys, base_y, rowdiff) == FSub(base_y, IntMulFloat(rowdiff, sys.cell_size))

target_z(sys, base_z) == FAdd(base_z, sys.hover_height)

\* one iteration of the loop over drone_idx.items(); acc is the frame so far
LoopBody(sys, aruco_coords, base, acc, item) ==
  LET drone_name == item[1]
      target_pos_idx == item[2]
  IN  IF InvalidPosition(sys, target_pos_idx)
      THEN [acc EXCEPT !.out = Append(@, <<"WARN", drone_name, target_pos_idx>>)]
      ELSE LET target == GetItem(sys.workbench_layout, target_pos_idx)
           IN  IF target.raised # "none" THEN Raise(target.raised, acc.out)
               ELSE LET x == target_x(sys, aruco_coords[1], col_diff(target.value, base))
                        y == target_y(sys, aruco_coords[2], row_diff(target.value, base))
                        z == target_z(sys, aruco_coords[3])
                    IN  [acc EXCEPT !.ret = SetItem(@, drone_name,
                                              <<round(x, 3), round(y, 3), round(z, 3)>>)]

\* the for loop from its i-th item on; an exception ends it
RECURSIVE Loop(_, _, _, _, _, _)
Loop_Break(sys, aruco_coords, base, drone_idx, i, acc) ==
  IF i > Len(drone_idx) \/ acc.raised # "none" \/ acc.out # <<>> THEN acc
  ELSE Loop(sys, aruco_coords, base, drone_idx, i + 1,
            LoopBody(sys, aruco_coords, base, acc, drone_idx[i]))

Loop(sys, aruco_coords, base, drone_idx, i, acc) ==
  IF i > Len(drone_idx) \/ acc.raised # "none" THEN acc
  ELSE Loop(sys, aruco_coords, base, drone_idx, i + 1,
            LoopBody(sys, aruco_coords, base, acc, drone_idx[i]))

get_coords_to_fly_NoMarkerCheck(sys, aruco_coords, aruco_idx, drone_idx) ==
  LET base == GetItem(sys.workbench_layout, aruco_idx)
  IN  IF base.raised # "none" THEN Raise(base.raised, <<>>)
      ELSE Loop(sys, aruco_coords, base.value, drone_idx, 1, Return(<<>>, <<>>))

get_coords_to_fly(sys, aruco_coords, aruco_idx, drone_idx) ==
  IF aruco_idx \notin Keys(sys.workbench_layout)
  THEN Return(<<>>, <<<<"ERROR", aruco_idx>>>>)
  ELSE IF Len(aruco_coords) # 3 THEN Raise("ValueError", <<>>)
  ELSE LET base == GetItem(sys.workbench_layout, aruco_idx)
       IN  IF base.raised # "none" THEN Raise(base.raised, <<>>)
           ELSE Loop(sys, aruco_coords, base.value, drone_idx, 1, Return(<<>>, <<>>))

----------------------------------------------------------------------------
(* Inputs of the calls *)

MaxCraftId == 4
MaxMarkerId == 9
MaxCellId == 9
MaxPos == 6
MaxHandPos == 3

\* an id far outside every table
FarId == 99

CraftIds == (-1..MaxCraftId) \cup {FarId}

MarkerIds == (-1..MaxMarkerId) \cup {FarId}

CellIds == (-1..MaxCellId) \cup {FarId}

\* the drones of hand-made assignments
DroneNames == {"drone5", "drone6"}

\* marker readings [x, y, z], written as decimal literals in units of 10^-4 m
PositionLiterals ==
  <<<<25000, 18000, 5000>>,
    <<5, 15, 1000>>,
    <<21234, 18005, 2>>,
    <<-2000, 0, 0>>,
    <<9999990, -9999980, 12345>>,
    <<1000, 3000, 7000>>,
    <<99995, 20015, 2995>>,
    <<-1505, 45, 1>>>>

Position(i) ==
  <<DecimalToFloat(PositionLiterals[i][1], 4),
    DecimalToFloat(PositionLiterals[i][2], 4),
    DecimalToFloat(PositionLiterals[i][3], 4)>>

Positions == {Position(i) : i \in {j \in DOMAIN PositionLiterals : j <= MaxPos}}

\* the readings tried with hand-made assignments
HandPositions == {Position(i) : i \in {j \in DOMAIN PositionLiterals : j <= MaxHandPos}}

\* every dict from some of DroneNames to CellIds, in every insertion order
Assignments ==
  {d \in UNION {[1..n -> DroneNames \X CellIds] : n \in 0..Cardinality(DroneNames)} :
     \A i, j \in DOMAIN d : i # j => d[i][1] # d[j][1]}

----------------------------------------------------------------------------
(* State: the module-level catalog `system`, and the caller's current call  *)
(* (fn = "none" between calls) with what it returned, printed and raised.   *)
(* Calls are synchronous: the caller makes one, uses its result, possibly   *)
(* as the argument of the next, and goes on to the next call.               *)

VARIABLES system, call, result

vars == <<system, call, result>>

Init ==
  /\ system = DroneWorkbenchSystem
  /\ call = [fn |-> "none"]
  /\ result = Return(<<>>, <<>>)

\* DictWithout(d, k): d after d.pop(k)
DictWithout(d, k) == SelectSeq(d, LAMBDA item : item[1] # k)

CallGetIdx_Pop ==
  /\ call.fn = "none"
  /\ \E craft_id \in CraftIds, aruco_idx \in MarkerIds :
    /\ call' = [fn |-> "get_idx_inside_workbench", craft_id |-> craft_id,
                aruco_idx |-> aruco_idx]
    /\ result' = get_idx_inside_workbench(system, craft_id, aruco_idx)
    /\ system' = [system EXCEPT !.craft_recipes = DictWithout(@, craft_id)]

\* the caller resolves a recipe
CallGetIdx ==
  /\ call.fn = "none"
  /\ \E craft_id \in CraftIds, aruco_idx \in MarkerIds :
    /\ call' = [fn |-> "get_idx_inside_workbench", craft_id |-> craft_id,
                aruco_idx |-> aruco_idx]
    /\ result' = get_idx_inside_workbench(system, craft_id, aruco_idx)
    /\ UNCHANGED system

\* the caller transforms an assignment of its own making
CallGetCoords ==
  /\ call.fn = "none"
  /\ \E aruco_coords \in HandPositions, aruco_idx \in MarkerIds, drone_idx \in Assignments :
    /\ call' = [fn |-> "get_coords_to_fly", aruco_coords |-> aruco_coords,
                aruco_idx |-> aruco_idx, drone_idx |-> drone_idx]
    /\ result' = get_coords_to_fly(system, aruco_coords, aruco_idx, drone_idx)
    /\ UNCHANGED system

\* the caller feeds the assignments it has just resolved, if any, to the
\* transform, with the marker id it resolved them for (__main__)
CallGetCoordsOfRecipe ==
  /\ call.fn = "get_idx_inside_workbench"
  /\ result.raised = "none"
  /\ result.ret # <<>>
  /\ \E aruco_coords \in Positions :
       /\ call' = [fn |-> "get_coords_to_fly", aruco_coords |-> aruco_coords,
                   aruco_idx |-> call.aruco_idx, drone_idx |-> result.ret]
       /\ result' = get_coords_to_fly(system, aruco_coords, call.aruco_idx, result.ret)
  /\ UNCHANGED system

\* the caller is done with what the last call returned
Discard ==
  /\ call.fn # "none"
  /\ call' = [fn |-> "none"]
  /\ result' = Return(<<>>, <<>>)
  /\ UNCHANGED system

Next == CallGetIdx \/ CallGetCoords \/ CallGetCoordsOfRecipe \/ Discard

Spec == Init /\ [][Next]_vars

----------------------------------------------------------------------------
(* Vocabulary of the properties *)

IdxCall == call.fn = "get_idx_inside_workbench"

CoordsCall == call.fn = "get_coords_to_fly"

\* the configured layout and recipes (the catalog as constructed)
ValidCell(c) == c \in Keys(workbench_layout)

RowOf(c) == Value(workbench_layout, c)[1]

ColOf(c) == Value(workbench_layout, c)[2]

ValidRecipe(r) == r \in Keys(craft_recipes)

AssignmentsOf(r) == Value(craft_recipes, r).assignments

\* a dict as a mapping, its insertion order forgotten (dict equality)
AsMap(d) == [k \in Keys(d) |-> Value(d, k)]

\* a float read as a number of thousandths, and the floats that are 3-decimal
\* values of at most 1000 m
Milli(v) == DecimalDigits(v, 3)

OnMilliGrid(v) == round(v, 3) = v /\ Milli(v) \in -1000000..1000000

\* the items of d whose target cell is in the layout
ValidItems(d) == SelectSeq(d, LAMBDA item : ValidCell(item[2]))

\* d with the target cell of its i-th drone changed to c
Retarget(d, i, c) == [d EXCEPT ![i] = <<d[i][1], c>>]

\* the flight target of the i-th drone of this call had its cell been c
Moved(i, c) ==
  Value(get_coords_to_fly(system, call.aruco_coords, call.aruco_idx,
                          Retarget(call.drone_idx, i, c)).ret,
        call.drone_idx[i][1])

\* the call of the spec's scenario: recipe 2, marker cell 3 at [2.5, 1.8, 0.5]
ScenarioCall ==
  /\ CoordsCall
  /\ call.aruco_coords = <<DecimalToFloat(25, 1), DecimalToFloat(18, 1), DecimalToFloat(5, 1)>>
  /\ call.aruco_idx = 3
  /\ call.drone_idx = get_idx_inside_workbench(DroneWorkbenchSystem, 2, 3).ret

P3(x, y, z) == <<DecimalToFloat(x, 3), DecimalToFloat(y, 3), DecimalToFloat(z, 3)>>

----------------------------------------------------------------------------
(* C1 *)

\* C1 as stated: the scenario call returns drone5 -> [2.65, 1.8, 0.8],
\* drone6 -> [2.8, 1.8, 0.8], drone11 -> [2.5, 1.8, 0.8],
\* drone13 -> [2.65, 1.65, 0.8]
C1_Stated ==
  ScenarioCall =>
    /\ result.raised = "none"
    /\ AsMap(result.ret) =
         AsMap(<<<<"drone5", P3(2650, 1800, 800)>>, <<"drone6", P3(2800, 1800, 800)>>,
                 <<"drone11", P3(2500, 1800, 800)>>, <<"drone13", P3(2650, 1650, 800)>>>>)

\* C1 amended: the scenario call returns drone5 -> [2.65, 1.8, 0.8],
\* drone6 -> [2.8, 1.8, 0.8], drone11 -> [2.5, 1.8, 0.8] and
\* drone13 -> [2.5, 1.65, 0.8] (cell 6 is straight below the marker's cell 3)
C1_Scenario ==
  ScenarioCall =>
    /\ result.raised = "none"
    /\ AsMap(result.ret) =
         AsMap(<<<<"drone5", P3(2650, 1800, 800)>>, <<"drone6", P3(2800, 1800, 800)>>,
                 <<"drone11", P3(2500, 1800, 800)>>, <<"drone13", P3(2500, 1650, 800)>>>>)

C1_Witness == ScenarioCall /\ Len(result.ret) = 4

----------------------------------------------------------------------------
(* C2 *)

\* C2: for a configured recipe id and any observed marker id, the resolver
\* returns exactly the configured assignments of that recipe
C2_ReturnsConfigured ==
  (IdxCall /\ ValidRecipe(call.craft_id)) =>
    /\ result.raised = "none"
    /\ result.ret = AssignmentsOf(call.craft_id)

C2_Witness ==
  /\ IdxCall
  /\ call.craft_id = 2
  /\ call.aruco_idx = FarId
  /\ Len(result.ret) = 4

----------------------------------------------------------------------------
(* C3 *)

\* the sign convention for the drones of this call, read in thousandths
SignConvention ==
  \A i \in DOMAIN call.drone_idx :
    LET t == call.drone_idx[i][2]
        p == Value(result.ret, call.drone_idx[i][1])
    IN  ValidCell(t) =>
          \A c \in Keys(workbench_layout) :
            /\ (RowOf(c) = RowOf(t) /\ ColOf(c) = ColOf(t) + 1) =>
                 LET q == Moved(i, c)
                 IN  /\ Milli(q[1]) = Milli(p[1]) + Milli(system.cell_size)
                     /\ q[2] = p[2]
                     /\ q[3] = p[3]
            /\ (ColOf(c) = ColOf(t) /\ RowOf(c) = RowOf(t) + 1) =>
                 LET q == Moved(i, c)
                 IN  /\ Milli(q[2]) = Milli(p[2]) - Milli(system.cell_size)
                     /\ q[1] = p[1]
                     /\ q[3] = p[3]

\* C3 as stated: for every marker position, one column to the right adds
\* exactly cellSize to the rounded X and one row down takes exactly cellSize
\* from the rounded Y, the other coordinates unchanged
C3_Stated == (CoordsCall /\ ValidCell(call.aruco_idx)) => SignConvention

\* C3 amended: the same, for marker positions whose x and y are 3-decimal
\* values of at most 1000 m
C3_SignConvention ==
  (/\ CoordsCall
   /\ ValidCell(call.aruco_idx)
   /\ OnMilliGrid(call.aruco_coords[1])
   /\ OnMilliGrid(call.aruco_coords[2])) => SignConvention

C3_Witness ==
  /\ CoordsCall
  /\ call.aruco_idx = 8
  /\ OnMilliGrid(call.aruco_coords[1])
  /\ OnMilliGrid(call.aruco_coords[2])
  /\ \E i \in DOMAIN call.drone_idx : call.drone_idx[i][2] = 4
  /\ \E i \in DOMAIN result.ret : Milli(result.ret[i][2][1]) < Milli(call.aruco_coords[1])

----------------------------------------------------------------------------
(* C4 *)

\* C4: a marker cell id outside the layout yields an empty mapping and no
\* exception, whatever the position and the assignments
C4_UnknownMarkerCell ==
  (CoordsCall /\ ~ValidCell(call.aruco_idx)) =>
    /\ result.raised = "none"
    /\ result.ret = <<>>

C4_Witness ==
  /\ CoordsCall
  /\ call.aruco_idx = FarId
  /\ Len(call.drone_idx) = 2
  /\ \A i \in DOMAIN call.drone_idx : ValidCell(call.drone_idx[i][2])
  /\ result.ret = <<>>

----------------------------------------------------------------------------
(* C5 *)

\* C5: with a valid marker cell, the output holds exactly the drones with
\* valid target cells, each with the position it gets when the invalid
\* drones are left out of the input, and no exception is raised
C5_PartialFailure ==
  (CoordsCall /\ ValidCell(call.aruco_idx)) =>
    /\ result.raised = "none"
    /\ Keys(result.ret) = {call.drone_idx[i][1] :
                             i \in {j \in DOMAIN call.drone_idx : ValidCell(call.drone_idx[j][2])}}
    /\ result.ret = get_coords_to_fly(system, call.aruco_coords, call.aruco_idx,
                                      ValidItems(call.drone_idx)).ret

C5_Witness ==
  /\ CoordsCall
  /\ ValidCell(call.aruco_idx)
  /\ Len(call.drone_idx) = 2
  /\ ~ValidCell(call.drone_idx[1][2])
  /\ ValidCell(call.drone_idx[2][2])
  /\ Len(result.ret) = 1

----------------------------------------------------------------------------
(* C6 *)

\* C6 as stated: a drone whose target cell is the marker's cell gets
\* (x, y) = (markerX, markerY) and z = markerZ + hoverHeight
C6_Stated ==
  (CoordsCall /\ ValidCell(call.aruco_idx)) =>
    \A i \in DOMAIN call.drone_idx :
      call.drone_idx[i][2] = call.aruco_idx =>
        Value(result.ret, call.drone_idx[i][1]) =
          <<call.aruco_coords[1], call.aruco_coords[2],
            FAdd(call.aruco_coords[3], system.hover_height)>>

\* C6 amended: such a drone gets markerX, markerY and markerZ + hoverHeight,
\* each rounded to 3 decimal places
C6_ZeroDisplacement ==
  (CoordsCall /\ ValidCell(call.aruco_idx)) =>
    \A i \in DOMAIN call.drone_idx :
      call.drone_idx[i][2] = call.aruco_idx =>
        Value(result.ret, call.drone_idx[i][1]) =
          <<round(call.aruco_coords[1], 3), round(call.aruco_coords[2], 3),
            round(FAdd(call.aruco_coords[3], system.hover_height), 3)>>

C6_Witness ==
  /\ CoordsCall
  /\ call.aruco_idx = 3
  /\ \E i \in DOMAIN call.drone_idx :
       /\ call.drone_idx[i][2] = 3
       /\ call.drone_idx[i][1] \in Keys(result.ret)
  /\ ~OnMilliGrid(call.aruco_coords[1])

----------------------------------------------------------------------------
(* C7 *)

\* C7: an unconfigured recipe id yields an empty mapping, an ERROR line and
\* no exception, whatever the observed marker id
C7_UnknownRecipe ==
  (IdxCall /\ ~ValidRecipe(call.craft_id)) =>
    /\ result.raised = "none"
    /\ result.ret = <<>>
    /\ result.out = <<<<"ERROR", call.craft_id>>>>

C7_Witness ==
  /\ IdxCall
  /\ call.craft_id = FarId
  /\ result.out = <<<<"ERROR", FarId>>>>

----------------------------------------------------------------------------
(* C8 *)

\* C8: with a valid marker cell and a non-empty assignments mapping whose
\* target cells are all valid, the output has one entry per input drone
C8_OneEntryPerDrone ==
  (/\ CoordsCall
   /\ ValidCell(call.aruco_idx)
   /\ call.drone_idx # <<>>
   /\ \A i \in DOMAIN call.drone_idx : ValidCell(call.drone_idx[i][2])) =>
    /\ Keys(result.ret) = Keys(call.drone_idx)
    /\ Len(result.ret) = Len(call.drone_idx)

C8_Witness ==
  /\ CoordsCall
  /\ ValidCell(call.aruco_idx)
  /\ Len(call.drone_idx) = 2
  /\ call.drone_idx[1][2] = 0
  /\ ValidCell(call.drone_idx[2][2])
  /\ Len(result.ret) = 2

----------------------------------------------------------------------------
(* C9 *)

\* C9: the catalog always equals its value at construction, and what a call
\* returns, prints and raises is what it does on the constructed catalog
C9_CatalogFrozen ==
  /\ system = DroneWorkbenchSystem
  /\ IdxCall =>
       result = get_idx_inside_workbench(DroneWorkbenchSystem, call.craft_id, call.aruco_idx)
  /\ CoordsCall =>
       result = get_coords_to_fly(DroneWorkbenchSystem, call.aruco_coords,
                                  call.aruco_idx, call.drone_idx)

\* a transform call that follows a resolve call: a recipe of three drones at a
\* reading only resolved assignments are tried with
C9_Witness ==
  /\ CoordsCall
  /\ call.aruco_coords = Position(MaxPos)
  /\ call.drone_idx = AssignmentsOf(0)
  /\ Len(result.ret) = 3

----------------------------------------------------------------------------
(* C10 *)

\* C10: for a configured recipe and a marker cell of the layout, the
\* transform of the recipe's assignments skips no drone, and no two of its
\* drones get the same (x, y)
C10_RecipesSpreadOut ==
  (/\ CoordsCall
   /\ ValidCell(call.aruco_idx)
   /\ \E r \in Keys(craft_recipes) : call.drone_idx = AssignmentsOf(r)) =>
    /\ result.raised = "none"
    /\ result.out = <<>>
    /\ Keys(result.ret) = Keys(call.drone_idx)
    /\ \A i, j \in DOMAIN result.ret :
         i # j => (result.ret[i][2][1] # result.ret[j][2][1]
                   \/ result.ret[i][2][2] # result.ret[j][2][2])

C10_Witness ==
  /\ CoordsCall
  /\ call.aruco_idx = 8
  /\ call.drone_idx = AssignmentsOf(2)
  /\ call.aruco_coords = Position(5)
  /\ Len(result.ret) = 4

====
